---------------------------- MODULE Spec2Model ----------------------------
(***************************************************************************)
(* Fertility.py: a batch script with two pipelines run one after the other *)
(*   - clustering  (lines 99-198): filter, change rate, RobustScaler,      *)
(*     silhouette sweep, KMeans(3), inverse_transform, sub-clustering of   *)
(*     change[labels==0];                                                  *)
(*   - trend fit   (lines 202-248): curve_fit of a cubic, error_range,     *)
(*     extrapolation to 2040, plot.                                        *)
(* Spec    is the script, one action per statement group, driven by pc.    *)
(* SpecEst applies the pure functions derivative / error_range to inputs   *)
(*         drawn from small sets.                                          *)
(*                                                                         *)
(* Floats are records [kind, v]: kind "num" (v an integer in a stated      *)
(* fixed-point unit), "nan", "inf" (v the sign) and "sqrt" (the square     *)
(* root of v, kept as a term so that it stays exact).                      *)
(* Arrays that the script only passes on (scaled data, centres, curves     *)
(* over calendar years) are kept as terms naming what they were computed   *)
(* from; 2040^3 does not fit TLC's integers.                               *)
(***************************************************************************)
EXTENDS Integers, Sequences, FiniteSets, TLC

VARIABLES
    pc,         \* position in the script, or "failed" / "done"
    data_Fer,   \* the fertility table (line 99), then the filtered table (102)
    change,     \* rows [name, y1960, Change] (105-108)
    df_ex,      \* the feature set handed to the scaler (124, 167)
    scaler,     \* RobustScaler state (121)
    norm,       \* scaled features (127, 170)
    ic,         \* loop variable of the sweep (136); 0 before the loop
    score,      \* last silhouette score (137)
    printed,    \* the k of every score line printed so far (138)
    labels,     \* kmeans.labels_ (145, 183)
    cen,        \* cluster centres (147-148, 185-186)
    change2,    \* change[labels==0] (164)
    x_val,      \* years of the indicator series (216)
    fitOutcome, \* how curve_fit ended (220)
    popt, pcov, \* its result (220)
    y_err, fut_x, fut_y, y_fut_err, fitted,   \* 223-235
    trace,      \* history: every library / estimator call made so far
    epc, ef, ex, eparams, ecov, eindex, eres  \* SpecEst: one call and its result

scriptVars == <<pc, data_Fer, change, df_ex, scaler, norm, ic, score, printed,
                labels, cen, change2, x_val, fitOutcome, popt, pcov, y_err,
                fut_x, fut_y, y_fut_err, fitted, trace>>
estVars == <<epc, ef, ex, eparams, ecov, eindex, eres>>
vars == <<scriptVars, estVars>>

---------------------------------------------------------------------------
(* Bounds of the model *)
MaxRows == 12
MaxYears == 5
MaxGap == 2
MaxX == 2

(* Program constants *)
NClusters == 3
SweepLo == 2
SweepStop == 11
Horizon == 2041

---------------------------------------------------------------------------
(* Floats *)
Num(n) == [kind |-> "num", v |-> n]
NaN == [kind |-> "nan", v |-> 0]
Inf(s) == [kind |-> "inf", v |-> s]
Abs(n) == IF n < 0 THEN -n ELSE n
Sign(n) == IF n < 0 THEN -1 ELSE IF n > 0 THEN 1 ELSE 0
notna(f) == f.kind # "nan"

FAdd(a, b) ==
    IF a.kind = "nan" \/ b.kind = "nan" THEN NaN
    ELSE IF a.kind = "inf" /\ b.kind = "inf"
         THEN (IF a.v = b.v THEN a ELSE NaN)
    ELSE IF a.kind = "inf" THEN a
    ELSE IF b.kind = "inf" THEN b
    ELSE Num(a.v + b.v)

FMul(a, b) ==
    IF a.kind = "nan" \/ b.kind = "nan" THEN NaN
    ELSE IF a.kind = "inf" \/ b.kind = "inf"
         THEN (IF Sign(a.v) * Sign(b.v) = 0 THEN NaN
               ELSE Inf(Sign(a.v) * Sign(b.v)))
    ELSE Num(a.v * b.v)

\* numpy float division: x/0 is +-inf, 0/0 is nan, no exception
FDiv(a, b) ==
    IF a.kind = "nan" \/ b.kind = "nan" THEN NaN
    ELSE IF a.kind = "inf" /\ b.kind = "inf" THEN NaN
    ELSE IF a.kind = "inf"
         THEN Inf(a.v * (IF b.v < 0 THEN -1 ELSE 1))
    ELSE IF b.kind = "inf" THEN Num(0)
    ELSE IF b.v = 0
         THEN (IF a.v = 0 THEN NaN ELSE Inf(Sign(a.v)))
    ELSE Num(a.v \div b.v)

\* np.sqrt: nan for a negative or nan argument
FSqrt(a) ==
    IF a.kind = "nan" THEN NaN
    ELSE IF a.kind = "inf" THEN (IF a.v > 0 THEN a ELSE NaN)
    ELSE IF a.v < 0 THEN NaN
    ELSE [kind |-> "sqrt", v |-> a.v]

---------------------------------------------------------------------------
(* The input table: FertilityData.csv as read at line 99.  Values are in   *)
(* tenths (births per woman).  Rows 1..n carry data for both years; the    *)
(* optional last row is a special case of the file.                        *)
Specials == {"none", "null1960", "null2020", "zero1960", "zero_both"}

GoodRow(i) == [name |-> i, y1960 |-> Num(20 + 5 * (i % 5)),
               y2020 |-> Num(15 + 3 * (i % 4))]

SpecialRow(s) ==
    [name |-> 0,
     y1960 |-> IF s = "null1960" THEN NaN
               ELSE IF s = "null2020" THEN Num(20) ELSE Num(0),
     y2020 |-> IF s = "null2020" THEN NaN
               ELSE IF s = "zero_both" THEN Num(0) ELSE Num(20)]

Table(n, s) ==
    [i \in 1..n |-> GoodRow(i)] \o (IF s = "none" THEN <<>> ELSE <<SpecialRow(s)>>)

\* line 102: keep the rows whose 1960 and 2020 values are both not NaN
KeepRow(r) == notna(r.y1960) /\ notna(r.y2020)

\* lines 107-108: 100.0/60.0 * (v2020 - v1960) / v1960, in hundredths of a
\* percent per year; pandas divides as numpy does
ChangeRate(y1960, y2020) ==
    FDiv(FMul(Num(10000), FAdd(y2020, FMul(Num(-1), y1960))),
         FMul(Num(60), y1960))

\* lines 124, 167: the two columns used for clustering
Features(tbl) == [i \in 1..Len(tbl) |-> [x |-> tbl[i].y1960, y |-> tbl[i].Change]]

HasKind(df, k) == \E i \in 1..Len(df) : df[i].x.kind = k \/ df[i].y.kind = k

---------------------------------------------------------------------------
(* RobustScaler.  Its state (median and IQR per column) is a function of   *)
(* the data it was fit on, so the state is kept as that data; nfit counts  *)
(* the fits of this scaler object.                                         *)
Unfitted == [fitted |-> FALSE, on |-> <<>>, nfit |-> 0]

\* scaler.fit rejects an empty table and infinite values, NaN is ignored
ScalerFitRaises(df) == Len(df) = 0 \/ HasKind(df, "inf")
ScalerFit(s, df) == [fitted |-> TRUE, on |-> df, nfit |-> s.nfit + 1]
ScalerTransform(s, df) == [data |-> df, by |-> s]
NoArray == [data |-> <<>>, by |-> Unfitted]
NoCentres == [space |-> "none", of |-> NoArray, by |-> Unfitted]
\* kmeans.cluster_centers_: centres in the scaled space of xy
Centres(xy) == [space |-> "scaled", of |-> xy, by |-> Unfitted]
\* scaler.inverse_transform(cen): x * IQR + median with the scaler's state
ScalerInverse(s, c) == [space |-> "orig", of |-> c.of, by |-> s]

---------------------------------------------------------------------------
(* KMeans and the silhouette score (sklearn).                              *)
Event(op, k, n, out) == [op |-> op, k |-> k, n |-> n, out |-> out]

\* KMeans.fit raises ValueError on NaN input and on n_samples < n_clusters
KMeansRaises(xy, k) == HasKind(xy.data, "nan") \/ Len(xy.data) < k
\* silhouette_score needs 2 <= number of labels <= n_samples - 1
SilhouetteRaises(n, k) == ~(2 <= k /\ k <= n - 1)

Perms(k) == {p \in [0..(k - 1) -> 0..(k - 1)] :
                \A a, b \in 0..(k - 1) : p[a] = p[b] => a = b}
Shapes == {"round", "skew"}
\* a partition of n >= k points into k non-empty clusters, numbered 0..k-1
Block(i, k, shape) ==
    IF shape = "round" THEN i % k ELSE IF i < k THEN i - 1 ELSE k - 1
\* the labellings a fit may return: the label a cluster gets is arbitrary
Labelings(n, k) ==
    {[i \in 1..n |-> p[Block(i, k, sh)]] : p \in Perms(k), sh \in Shapes}

ScoreVals == {-1, 0, 1}

\* line 164: change[labels==0]
SelectRows(tbl, lab) == SelectSeq([i \in 1..Len(tbl) |-> [r |-> tbl[i], l |-> lab[i]]],
                                  LAMBDA e : e.l = 0)
SelectSubset(tbl, lab) ==
    LET s == SelectRows(tbl, lab) IN [i \in 1..Len(s) |-> s[i].r]

\* line 141 / 179: the cluster count of the two fits
KForFit == NClusters

---------------------------------------------------------------------------
(* The clustering pipeline, lines 99-198.  An exception ends the script:   *)
(* pc becomes "failed" and nothing else runs.                              *)
\* a curve computed over x from a fit result, kept as a term (lines 223-235)
Term(op, x, params, cov) == [op |-> op, x |-> x, params |-> params, cov |-> cov]
NoTerm == Term("none", <<>>, <<>>, <<>>)

EstIdle ==
    /\ epc = "off" /\ ef = "cubic" /\ ex = 0 /\ eparams = <<>>
    /\ ecov = <<>> /\ eindex = 0 /\ eres = NaN

Init ==
    /\ pc = "filter"
    /\ data_Fer \in {Table(n, s) : n \in 0..MaxRows, s \in Specials}
    /\ change = <<>> /\ df_ex = <<>> /\ scaler = Unfitted /\ norm = NoArray
    /\ ic = 0 /\ score = 0 /\ printed = <<>> /\ labels = <<>>
    /\ cen = NoCentres /\ change2 = <<>> /\ x_val = <<>>
    /\ fitOutcome = "none" /\ popt = <<>> /\ pcov = <<>>
    /\ y_err = NoTerm /\ fut_x = <<>> /\ fut_y = NoTerm /\ y_fut_err = NoTerm
    /\ fitted = NoTerm /\ trace = <<>>
    /\ EstIdle

\* lines 102-103
Filter ==
    /\ pc = "filter"
    /\ data_Fer' = SelectSeq(data_Fer, KeepRow)
    /\ pc' = "features"
    /\ UNCHANGED <<change, df_ex, scaler, norm, ic, score, printed, labels, cen,
                   change2, x_val, fitOutcome, popt, pcov, y_err, fut_x, fut_y,
                   y_fut_err, fitted, trace, estVars>>

\* lines 105-108
BuildFeatures ==
    /\ pc = "features"
    /\ change' = [i \in 1..Len(data_Fer) |->
                    [name |-> data_Fer[i].name, y1960 |-> data_Fer[i].y1960,
                     Change |-> ChangeRate(data_Fer[i].y1960, data_Fer[i].y2020)]]
    /\ pc' = "fit1"
    /\ UNCHANGED <<data_Fer, df_ex, scaler, norm, ic, score, printed, labels, cen,
                   change2, x_val, fitOutcome, popt, pcov, y_err, fut_x, fut_y,
                   y_fut_err, fitted, trace, estVars>>

\* df_ex = tbl[["1960", "Change"]]; scaler.fit(df_ex)
FitScaler(tbl, next) ==
    LET df == Features(tbl) IN
    /\ df_ex' = df
    /\ IF ScalerFitRaises(df)
       THEN /\ trace' = Append(trace, Event("scaler.fit", 0, Len(df), "raise"))
            /\ pc' = "failed"
            /\ UNCHANGED scaler
       ELSE /\ trace' = Append(trace, Event("scaler.fit", 0, Len(df), "ok"))
            /\ scaler' = ScalerFit(scaler, df)
            /\ pc' = next
    /\ UNCHANGED <<data_Fer, change, norm, ic, score, printed, labels, cen,
                   change2, x_val, fitOutcome, popt, pcov, y_err, fut_x, fut_y,
                   y_fut_err, fitted, estVars>>

\* norm = scaler.transform(df_ex)
Transform(next) ==
    /\ norm' = ScalerTransform(scaler, df_ex)
    /\ trace' = Append(trace, Event("scaler.transform", 0, Len(df_ex), "ok"))
    /\ pc' = next
    /\ UNCHANGED <<data_Fer, change, df_ex, scaler, ic, score, printed, labels,
                   cen, change2, x_val, fitOutcome, popt, pcov, y_err, fut_x,
                   fut_y, y_fut_err, fitted, estVars>>

\* the script without line 125: the scaler is used as constructed
FitScaler1_Skipped ==
    /\ pc = "fit1"
    /\ df_ex' = Features(change)
    /\ pc' = "transform1"
    /\ UNCHANGED <<data_Fer, change, scaler, norm, ic, score, printed, labels,
                   cen, change2, x_val, fitOutcome, popt, pcov, y_err, fut_x,
                   fut_y, y_fut_err, fitted, trace, estVars>>

\* lines 121-125
FitScaler1 == pc = "fit1" /\ FitScaler(change, "transform1")
\* line 127
Transform1 == pc = "transform1" /\ Transform("sweep")

\* a sweep over range(2, 11, 2)
NextK_Step2 == IF ic = 0 THEN SweepLo ELSE ic + 2

\* line 136: the value the loop variable takes in the next iteration
NextK == IF ic = 0 THEN SweepLo ELSE ic + 1

\* lines 136-138, one iteration: one_silhouette(norm, ic) (lines 92-96) and
\* the print.  KMeans.fit and silhouette_score are called as they come, each
\* raising on the input it rejects.
SweepIter ==
    /\ pc = "sweep"
    /\ LET k == NextK
           n == Len(norm.data)
           fitEv == Event("KMeans.fit", k, n, "ok")
       IN
       /\ ic' = k
       /\ IF KMeansRaises(norm, k)
          THEN /\ trace' = Append(trace, Event("KMeans.fit", k, n, "raise"))
               /\ pc' = "failed"
               /\ UNCHANGED <<score, printed>>
          ELSE IF SilhouetteRaises(n, k)
          THEN /\ trace' = trace \o <<fitEv, Event("silhouette_score", k, n, "raise")>>
               /\ pc' = "failed"
               /\ UNCHANGED <<score, printed>>
          ELSE /\ trace' = trace \o <<fitEv, Event("silhouette_score", k, n, "ok")>>
               /\ \E sc \in ScoreVals : score' = sc
               /\ printed' = Append(printed, k)
               /\ pc' = IF k + 1 < SweepStop THEN "sweep" ELSE "kmeans1"
    /\ UNCHANGED <<data_Fer, change, df_ex, scaler, norm, labels, cen, change2,
                   x_val, fitOutcome, popt, pcov, y_err, fut_x, fut_y, y_fut_err,
                   fitted, estVars>>

\* kmeans = cluster.KMeans(n_clusters=3, n_init=20); kmeans.fit(norm);
\* labels = kmeans.labels_; cen = kmeans.cluster_centers_
KMeansFit(next) ==
    LET k == KForFit
        n == Len(norm.data)
    IN
    /\ IF KMeansRaises(norm, k)
       THEN /\ trace' = Append(trace, Event("KMeans.fit", k, n, "raise"))
            /\ pc' = "failed"
            /\ UNCHANGED <<labels, cen>>
       ELSE /\ trace' = Append(trace, Event("KMeans.fit", k, n, "ok"))
            /\ \E l \in Labelings(n, k) : labels' = l
            /\ cen' = Centres(norm)
            /\ pc' = next
    /\ UNCHANGED <<data_Fer, change, df_ex, scaler, norm, ic, score, printed,
                   change2, x_val, fitOutcome, popt, pcov, y_err, fut_x, fut_y,
                   y_fut_err, fitted, estVars>>

\* cen = scaler.inverse_transform(cen)
InverseTransform(next) ==
    /\ cen' = ScalerInverse(scaler, cen)
    /\ trace' = Append(trace, Event("scaler.inverse_transform", 0, KForFit, "ok"))
    /\ pc' = next
    /\ UNCHANGED <<data_Fer, change, df_ex, scaler, norm, ic, score, printed,
                   labels, change2, x_val, fitOutcome, popt, pcov, y_err, fut_x,
                   fut_y, y_fut_err, fitted, estVars>>

\* lines 141-147
KMeans1 == pc = "kmeans1" /\ KMeansFit("inverse1")
\* the script with the refit of lines 164-168 moved before line 148
Inverse1_RefitFirst ==
    /\ pc = "inverse1"
    /\ scaler' = ScalerFit(scaler, Features(SelectSubset(change, labels)))
    /\ cen' = ScalerInverse(scaler', cen)
    /\ trace' = trace \o <<Event("scaler.fit", 0, Len(scaler'.on), "ok"),
                           Event("scaler.inverse_transform", 0, KForFit, "ok")>>
    /\ pc' = "select"
    /\ UNCHANGED <<data_Fer, change, df_ex, norm, ic, score, printed, labels,
                   change2, x_val, fitOutcome, popt, pcov, y_err, fut_x, fut_y,
                   y_fut_err, fitted, estVars>>

\* line 148
Inverse1 == pc = "inverse1" /\ InverseTransform("select")

\* line 164
Select ==
    /\ pc = "select"
    /\ change2' = SelectSubset(change, labels)
    /\ pc' = "fit2"
    /\ UNCHANGED <<data_Fer, change, df_ex, scaler, norm, ic, score, printed,
                   labels, cen, x_val, fitOutcome, popt, pcov, y_err, fut_x,
                   fut_y, y_fut_err, fitted, trace, estVars>>

\* lines 167-168
FitScaler2 == pc = "fit2" /\ FitScaler(change2, "transform2")
\* line 170
Transform2 == pc = "transform2" /\ Transform("kmeans2")
\* lines 179-185
KMeans2 == pc = "kmeans2" /\ KMeansFit("inverse2")
\* line 186
Inverse2 == pc = "inverse2" /\ InverseTransform("read_ind")

---------------------------------------------------------------------------
(* The estimator, lines 25-79.  Parameters and model values are integers   *)
(* in units of 1e-6 (Micro to the unit), x and the covariance entries are  *)
(* whole numbers; parameters are whole multiples of Micro, so that         *)
(* 1e-6 * |p| is exact.                                                    *)
Micro == 1000000

\* line 36
polynomial_fit(x, a, b, c, d) == a * x * x * x + b * x * x + c * x + d
\* f(x, *params) (line 78): f is polynomial_fit, or the model a*x + b that
\* error_range is handed as its argument f
Apply(f, x, p) ==
    IF f = "cubic" THEN polynomial_fit(x, p[1], p[2], p[3], p[4])
    ELSE p[1] * x + p[2]
NParams(f) == IF f = "cubic" THEN 4 ELSE 2

\* lines 73-79
derivative(x, f, params, index) ==
    LET step == Abs(params[index]) \div Micro          \* val * abs(params[index])
        delta == [i \in 1..Len(params) |-> IF i = index THEN step ELSE 0]
        up == [i \in 1..Len(params) |-> params[i] + delta[i]]
        low == [i \in 1..Len(params) |-> params[i] - delta[i]]
        diff == (Apply(f, x, up) - Apply(f, x, low)) \div 2
    IN FDiv(Num(diff), Num(step))

\* lines 54-56, from column j on, for a fixed row i
RECURSIVE InnerLoop(_, _, _, _, _, _, _)
InnerLoop(x, f, params, cov_matrix, i, j, var) ==
    IF j > Len(params) THEN var
    ELSE InnerLoop(x, f, params, cov_matrix, i, j + 1,
                   FAdd(var, FMul(FMul(derivative(x, f, params, i),
                                       derivative(x, f, params, j)),
                                  Num(cov_matrix[i][j]))))

\* lines 52-56, from row i on
RECURSIVE OuterLoop(_, _, _, _, _, _)
OuterLoop(x, f, params, cov_matrix, i, var) ==
    IF i > Len(params) THEN var
    ELSE OuterLoop(x, f, params, cov_matrix, i + 1,
                   InnerLoop(x, f, params, cov_matrix, i, 1, var))

\* error_range with the inner loop over range(i, len(params)): the pairs
\* below the diagonal are left out
RECURSIVE OuterLoop_Upper(_, _, _, _, _, _)
OuterLoop_Upper(x, f, params, cov_matrix, i, var) ==
    IF i > Len(params) THEN var
    ELSE OuterLoop_Upper(x, f, params, cov_matrix, i + 1,
                         InnerLoop(x, f, params, cov_matrix, i, i, var))
error_range_UpperOnly(x, f, params, cov_matrix) ==
    FSqrt(OuterLoop_Upper(x, f, params, cov_matrix, 1, Num(0)))

\* lines 51-57
error_range(x, f, params, cov_matrix) ==
    FSqrt(OuterLoop(x, f, params, cov_matrix, 1, Num(0)))

\* derivative perturbing params in place (params[index] += delta[index])
paramsAfterDerivative_InPlace(params, index) ==
    [params EXCEPT ![index] = @ + Abs(@) \div Micro]

\* The caller's params array after a call of derivative: delta, up and low
\* are new arrays (lines 74-77), params itself is only read.
paramsAfterDerivative(params, index) == params

\* The caller's params array after a call of error_range: 1 + len(params)
\* calls of derivative per row (lines 53, 55).
RECURSIVE paramsAfterCalls(_, _)
paramsAfterCalls(params, calls) ==
    IF calls = <<>> THEN params
    ELSE paramsAfterCalls(paramsAfterDerivative(params, Head(calls)), Tail(calls))
CallsOfRow(i, n) == <<i>> \o [j \in 1..n |-> j]
RECURSIVE CallsFrom(_, _)
CallsFrom(i, n) == IF i > n THEN <<>> ELSE CallsOfRow(i, n) \o CallsFrom(i + 1, n)
paramsAfterErrorRange(params) ==
    paramsAfterCalls(params, CallsFrom(1, Len(params)))

---------------------------------------------------------------------------
(* The trend pipeline, lines 202-248.                                      *)

\* a covariance matrix with d on the diagonal and o elsewhere
CubicCov(d, o) == [i \in 1..4 |-> [j \in 1..4 |-> IF i = j THEN d ELSE o]]
Finite(m) == [finite |-> TRUE, m |-> m]
\* pcov filled with inf: the covariance could not be estimated
InfCov == [finite |-> FALSE, m |-> CubicCov(0, 0)]

PoptVals == {<<2 * Micro, -3 * Micro, Micro, -5 * Micro>>,
             <<Micro, 0, -2 * Micro, 3 * Micro>>}
PcovVals == {Finite(CubicCov(2, 1)), Finite(CubicCov(1, 0))}

\* How curve_fit(polynomial_fit, x_val, y_val) can end for n data points:
\* it raises (fewer points than parameters, non-finite data, no convergence),
\* or returns popt with pcov filled with inf and an OptimizeWarning (no
\* degree of freedom left, or a rank-deficient Jacobian), or returns popt
\* and a finite pcov.  OptimizeWarning is a UserWarning: line 109 silences it.
CurveFitOutcomes(n) ==
    IF n < NParams("cubic") THEN {"raise"}
    ELSE IF n = NParams("cubic") THEN {"raise", "no_cov"}
    ELSE {"raise", "no_cov", "ok"}

\* np.arange(lo, hi) over whole numbers
arange(lo, hi) == [i \in 1..(IF hi > lo THEN hi - lo ELSE 0) |-> lo + i - 1]
RECURSIVE SeqMax(_)
SeqMax(sq) == IF Len(sq) = 1 THEN sq[1]
              ELSE LET m == SeqMax(Tail(sq)) IN IF sq[1] > m THEN sq[1] ELSE m

\* lines 204-217: the year columns of IndData.csv, consecutive years
ReadInd ==
    /\ pc = "read_ind"
    /\ \E n \in 0..MaxYears, gap \in 0..MaxGap :
          x_val' = arange(Horizon - 1 - gap - n + 1, Horizon - gap)
    /\ pc' = "curve_fit"
    /\ UNCHANGED <<data_Fer, change, df_ex, scaler, norm, ic, score, printed,
                   labels, cen, change2, fitOutcome, popt, pcov, y_err, fut_x,
                   fut_y, y_fut_err, fitted, trace, estVars>>

\* line 220
CurveFit ==
    /\ pc = "curve_fit"
    /\ \E out \in CurveFitOutcomes(Len(x_val)) :
          /\ fitOutcome' = out
          /\ IF out = "raise"
             THEN /\ trace' = Append(trace, Event("curve_fit", 0, Len(x_val), "raise"))
                  /\ pc' = "failed"
                  /\ UNCHANGED <<popt, pcov>>
             ELSE /\ trace' = Append(trace, Event("curve_fit", 0, Len(x_val), out))
                  /\ popt' \in PoptVals
                  /\ IF out = "ok" THEN pcov' \in PcovVals ELSE pcov' = InfCov
                  /\ pc' = "err_in"
    /\ UNCHANGED <<data_Fer, change, df_ex, scaler, norm, ic, score, printed,
                   labels, cen, change2, x_val, y_err, fut_x, fut_y, y_fut_err,
                   fitted, estVars>>

\* line 223
ErrIn ==
    /\ pc = "err_in"
    /\ y_err' = Term("error_range", x_val, popt, pcov)
    /\ popt' = paramsAfterErrorRange(popt)
    /\ trace' = Append(trace, Event("error_range", 0, Len(x_val), "ok"))
    /\ pc' = "extrapolate"
    /\ UNCHANGED <<data_Fer, change, df_ex, scaler, norm, ic, score, printed,
                   labels, cen, change2, x_val, fitOutcome, pcov, fut_x, fut_y,
                   y_fut_err, fitted, estVars>>

\* lines 226-227
Extrapolate ==
    /\ pc = "extrapolate"
    /\ fut_x' = arange(SeqMax(x_val) + 1, Horizon)
    /\ fut_y' = Term("polynomial_fit", fut_x', popt, <<>>)
    /\ trace' = Append(trace, Event("polynomial_fit", 0, Len(fut_x'), "ok"))
    /\ pc' = "err_fut"
    /\ UNCHANGED <<data_Fer, change, df_ex, scaler, norm, ic, score, printed,
                   labels, cen, change2, x_val, fitOutcome, popt, pcov, y_err,
                   y_fut_err, fitted, estVars>>

\* line 230
ErrFut ==
    /\ pc = "err_fut"
    /\ y_fut_err' = Term("error_range", fut_x, popt, pcov)
    /\ popt' = paramsAfterErrorRange(popt)
    /\ trace' = Append(trace, Event("error_range", 0, Len(fut_x), "ok"))
    /\ pc' = "plot"
    /\ UNCHANGED <<data_Fer, change, df_ex, scaler, norm, ic, score, printed,
                   labels, cen, change2, x_val, fitOutcome, pcov, y_err, fut_x,
                   fut_y, fitted, estVars>>

\* lines 233-248: the fitted curve polynomial_fit(x_val, *popt) and the bands
Plot ==
    /\ pc = "plot"
    /\ fitted' = Term("polynomial_fit", x_val, popt, <<>>)
    /\ trace' = Append(trace, Event("plot", 0, Len(x_val), "ok"))
    /\ pc' = "done"
    /\ UNCHANGED <<data_Fer, change, df_ex, scaler, norm, ic, score, printed,
                   labels, cen, change2, x_val, fitOutcome, popt, pcov, y_err,
                   fut_x, fut_y, y_fut_err, estVars>>

Next ==
    \/ Filter \/ BuildFeatures \/ FitScaler1 \/ Transform1 \/ SweepIter
    \/ KMeans1 \/ Inverse1 \/ Select \/ FitScaler2 \/ Transform2 \/ KMeans2
    \/ Inverse2 \/ ReadInd \/ CurveFit \/ ErrIn \/ Extrapolate \/ ErrFut \/ Plot

Spec == Init /\ [][Next]_vars

---------------------------------------------------------------------------
(* SpecEst: one call of derivative or error_range on inputs from small     *)
(* sets: the cubic of the script and the linear model a*x + b.             *)
ParamVals == {-2 * Micro, 0, Micro}
CovDiag == {0, 1, 2}
CovOff == {-1, 0, 1}
LinearCov(caa, cab, cbb) == <<<<caa, cab>>, <<cab, cbb>>>>

EstInputs ==
    {[f |-> "linear", params |-> <<a, b>>, cov |-> LinearCov(caa, cab, cbb)] :
        a \in ParamVals, b \in ParamVals, caa \in CovDiag, cab \in CovOff,
        cbb \in CovDiag}
    \cup
    {[f |-> "cubic", params |-> q, cov |-> CubicCov(d, o)] :
        q \in [1..4 -> ParamVals], d \in CovDiag, o \in CovOff}

InitEst ==
    /\ pc = "est"
    /\ data_Fer = <<>>
    /\ change = <<>> /\ df_ex = <<>> /\ scaler = Unfitted /\ norm = NoArray
    /\ ic = 0 /\ score = 0 /\ printed = <<>> /\ labels = <<>>
    /\ cen = NoCentres /\ change2 = <<>> /\ x_val = <<>>
    /\ fitOutcome = "none" /\ popt = <<>> /\ pcov = <<>>
    /\ y_err = NoTerm /\ fut_x = <<>> /\ fut_y = NoTerm /\ y_fut_err = NoTerm
    /\ fitted = NoTerm /\ trace = <<>>
    /\ epc = "ready" /\ eindex = 0 /\ eres = NaN
    /\ ex \in (-MaxX)..MaxX
    /\ \E inp \in EstInputs :
          ef = inp.f /\ eparams = inp.params /\ ecov = inp.cov

\* derivative(x, f, params, index)
CallDerivative ==
    /\ epc = "ready"
    /\ \E idx \in 1..NParams(ef) :
          /\ eindex' = idx
          /\ eres' = derivative(ex, ef, eparams, idx)
          /\ eparams' = paramsAfterDerivative(eparams, idx)
    /\ epc' = "derivative"
    /\ UNCHANGED <<ef, ex, ecov, scriptVars>>

\* error_range(x, f, params, cov_matrix)
CallErrorRange ==
    /\ epc = "ready"
    /\ eres' = error_range(ex, ef, eparams, ecov)
    /\ eparams' = paramsAfterErrorRange(eparams)
    /\ epc' = "error_range"
    /\ UNCHANGED <<ef, ex, ecov, eindex, scriptVars>>

NextEst == CallDerivative \/ CallErrorRange

SpecEst == InitEst /\ [][NextEst]_vars

---------------------------------------------------------------------------
(* Properties                                                              *)
Events(ops) == {i \in 1..Len(trace) : trace[i].op \in ops}
Before(i, ops) == {j \in Events(ops) : j < i}
OkBefore(i, ops) == {j \in Before(i, ops) : trace[j].out # "raise"}

\* C1: every inverse_transform of cluster centres uses the scaler state that
\* was fit on the feature set whose scaled form was clustered: the state that
\* transformed that set is the state that maps the centres back (same fit,
\* nfit included), for the full set and for the subset alike; and while the
\* centres wait in scaled space the scaler still is that state.
C1_ScalerNotRefit ==
    /\ cen.space = "scaled" =>
          /\ cen.of.by = scaler
          /\ scaler.fitted /\ scaler.on = cen.of.data
    /\ cen.space = "orig" =>
          /\ cen.by = cen.of.by
          /\ cen.by.fitted /\ cen.by.on = cen.of.data
C1_Witness ==
    /\ pc = "read_ind"
    /\ Cardinality(Events({"scaler.inverse_transform"})) = 2
    /\ cen.space = "orig" /\ cen.by.nfit = 2
    /\ cen.of.data = Features(change2) /\ Len(change2) < Len(change)

\* C2: no call of KMeans.fit or silhouette_score is made with k < 2 or with
\* k >= N points; such a configuration is rejected before the solver sees it
\* (stated for feature sets without NaN, so that only k and N decide).
C2_DegenerateRejected ==
    ~HasKind(df_ex, "nan") =>
        \A i \in Events({"KMeans.fit", "silhouette_score"}) :
            2 <= trace[i].k /\ trace[i].k < trace[i].n

\* C3: every row that reaches the change-rate computation has a 1960 value
\* that is present and not zero and a 2020 value that is present.
C3_BaselineValid ==
    pc # "filter" =>
        \A i \in 1..Len(data_Fer) :
            /\ notna(data_Fer[i].y1960) /\ data_Fer[i].y1960.v # 0
            /\ notna(data_Fer[i].y2020)

\* C4: the rows selected for sub-clustering do not depend on which integer a
\* cluster received: a fit returning the same partition with the labels
\* permuted would select the same rows.
Relabel(lab, p) == [i \in 1..Len(lab) |-> p[lab[i]]]
C4_SubsetIgnoresLabelIdentity ==
    pc = "fit2" =>
        \A p \in Perms(NClusters) :
            SelectSubset(change, Relabel(labels, p)) = change2

\* C5: when curve_fit fails (it raises, or the model is singular and no
\* covariance can be estimated) the run ends in failure and neither
\* error_range nor the extrapolation nor the plot runs.
C5_FailedFitStops ==
    fitOutcome \in {"raise", "no_cov"} =>
        /\ pc = "failed"
        /\ Events({"error_range", "polynomial_fit", "plot"}) = {}

AfterSweep == pc \in {"kmeans1", "inverse1", "select", "fit2"}
C7_SweepOnly ==
    /\ printed = [i \in 1..Len(printed) |-> SweepLo + i - 1]
    /\ Len(printed) <= SweepStop - SweepLo
    /\ Len(printed) = Cardinality({i \in Events({"silhouette_score"}) :
                                      trace[i].out = "ok"})
    /\ (pc = "sweep" \/ AfterSweep) =>
          /\ scaler = ScalerFit(Unfitted, Features(change))
          /\ norm = ScalerTransform(scaler, Features(change))
    /\ AfterSweep => Len(printed) = SweepStop - SweepLo
    /\ pc = "inverse1" =>
          /\ trace[Len(trace)].op = "KMeans.fit"
          /\ trace[Len(trace)].k = 3
          /\ cen.of = norm
C7_Witness ==
    /\ pc = "inverse1"
    /\ printed = <<2, 3, 4, 5, 6, 7, 8, 9, 10>>
    /\ score = 1

\* C8: error_range returns the square root of the sum, over all ordered
\* pairs (i, j) of parameters, of d_i * d_j * cov[i][j], d_i the partial
\* derivative of the model in parameter i; for a*x + b that is the square
\* root of x^2*cov[a,a] + 2*x*cov[a,b] + cov[b,b].  Parameters are non-zero.
RECURSIVE Pow(_, _)
Pow(x, e) == IF e = 0 THEN 1 ELSE x * Pow(x, e - 1)
Partial(f, x, i) == Pow(x, NParams(f) - i)
RECURSIVE SumPairs(_)
SumPairs(S) ==
    IF S = {} THEN 0
    ELSE LET q == CHOOSE r \in S : TRUE
         IN Partial(ef, ex, q[1]) * Partial(ef, ex, q[2]) * ecov[q[1]][q[2]]
            + SumPairs(S \ {q})
NonZeroParams == \A i \in 1..Len(eparams) : eparams[i] # 0
C8_BilinearForm ==
    (epc = "error_range" /\ NonZeroParams) =>
        /\ eres = FSqrt(Num(SumPairs((1..NParams(ef)) \X (1..NParams(ef)))))
        /\ ef = "linear" =>
              eres = FSqrt(Num(ex * ex * ecov[1][1] + 2 * ex * ecov[1][2]
                               + ecov[2][2]))
C8_Witness ==
    /\ epc = "error_range" /\ NonZeroParams /\ ef = "linear"
    /\ ex # 0 /\ ecov[1][2] # 0
    /\ eres.kind = "sqrt" /\ eres.v > 0

\* C9: derivative returns a finite value for every parameter vector, a zero
\* coefficient included: the perturbation width is never zero.
C9_DerivativeDefined ==
    epc = "derivative" => eres.kind = "num"

\* C10: curve_fit runs once and its result is never changed afterwards: the
\* in-sample band, the future values, the future band and the fitted curve
\* were all computed from the popt and pcov that the script still holds, over
\* the x arrays it still holds.
C10_FitResultImmutable ==
    /\ Cardinality(Events({"curve_fit"})) <= 1
    /\ y_err.op # "none" =>
          y_err.params = popt /\ y_err.cov = pcov /\ y_err.x = x_val
    /\ fut_y.op # "none" => fut_y.params = popt /\ fut_y.x = fut_x
    /\ y_fut_err.op # "none" =>
          /\ y_fut_err.params = popt /\ y_fut_err.cov = pcov
          /\ y_fut_err.x = fut_x
    /\ fitted.op # "none" => fitted.params = popt /\ fitted.x = x_val
    /\ fitOutcome \in {"ok", "no_cov"} => popt \in PoptVals
C10_Witness ==
    /\ pc = "done" /\ fitOutcome = "ok"
    /\ fitted.op = "polynomial_fit" /\ y_fut_err.op = "error_range"
    /\ Len(fut_x) > 0

=============================================================================
